---------------------------- MODULE Spec2Model ----------------------------
(***************************************************************************)
(* prowgen: compilation of job-group documents into prow job descriptors.  *)
(*                                                                         *)
(* Three parts of the program are modelled, each with its own variables    *)
(* and its own specification:                                              *)
(*   SpecMatrix   the matrix expander (applyMatrix)                        *)
(*   SpecReq      the requirement resolver (decorator.ApplyRequirements)   *)
(*   SpecCompile  reading, validating and compiling job-group documents    *)
(*                                                                         *)
(* A Go string is a sequence of tokens; a token stands for one character   *)
(* ("$", "(", ")", ".") or for a run of identifier characters ("matrix",   *)
(* "a", "x").                                                              *)
(***************************************************************************)
EXTENDS Integers, Sequences, FiniteSets, TLC

VARIABLES
    \* ---- matrix expander
    yamlStr,        \* the serialized job template handed to applyMatrix
    matrix,         \* JobsConfig.Matrix: axis name -> list of values
    res,            \* the list applyMatrix returned
    mpc,            \* "start" before the call, "done" after it
    \* ---- requirement resolver (decorator.ApplyRequirements)
    baseConfig,             \* spec.BaseConfig (AutoMaxProcs)
    job,                    \* the *config.JobBase, mutated in place
    job0,                   \* the job as it was handed to ApplyRequirements
    requirements,           \* the requirement names
    excludedRequirements,   \* the excluded requirement names
    presetMap,              \* name -> spec.RequirementPreset
    rpc,                    \* "start", then "done", "fatal" (log.Fatalf) or "panic"
    \* ---- job compiler
    globalConfig,   \* cli.GlobalConfig
    heap,           \* the Go maps that are shared by reference
    files,          \* the parsed job-group documents of the run, in order
    fileIdx,        \* the number of documents read
    jobsConfig,     \* the JobsConfig ReadJobConfig returned last
    branchIdx,      \* the number of branches of jobsConfig compiled
    output,         \* the config.JobConfig of each ConvertJobConfig call
    errs,           \* the errors ValidateJobConfig collected last
    lookups,        \* the lookups presetMap[req] made by applyRequirements
    jobBase,        \* the JobBase a single createJobBase call returned
    cpc             \* "idle", "read", "valid", "exit"; "base", "based"

matrixVars == <<yamlStr, matrix, res, mpc>>
reqVars == <<baseConfig, job, job0, requirements, excludedRequirements, presetMap, rpc>>

compileVars == <<globalConfig, heap, files, fileIdx, jobsConfig, branchIdx, output, errs,
                 lookups, jobBase, cpc>>

vars == <<matrixVars, reqVars, compileVars>>

-----------------------------------------------------------------------------
(* Bounds of the model *)

\* number of pieces a template is built from
MaxPieces == 3
\* number of values of one matrix axis
MaxVals == 2
\* number of requirement names handed to ApplyRequirements
MaxReqs == 2
\* number of containers of a job
MaxContainers == 2
\* number of job-group documents of one run
MaxFiles == 2

-----------------------------------------------------------------------------
(* Generic helpers on sequences *)

Range(s) == {s[i] : i \in 1..Len(s)}

RECURSIVE Flatten(_)
Flatten(ss) == IF ss = <<>> THEN <<>> ELSE Head(ss) \o Flatten(Tail(ss))

\* all sequences over S of length at most n
RECURSIVE SeqsUpTo(_, _)
SeqsUpTo(S, n) ==
    IF n = 0 THEN {<<>>}
    ELSE LET shorter == SeqsUpTo(S, n - 1)
         IN  shorter \cup {Append(s, x) : s \in {t \in shorter : Len(t) = n - 1}, x \in S}

\* strings.HasPrefix / strings.TrimPrefix / strings.TrimSuffix on token strings
HasPrefix(s, p) == Len(s) >= Len(p) /\ SubSeq(s, 1, Len(p)) = p
HasSuffix(s, p) == Len(s) >= Len(p) /\ SubSeq(s, Len(s) - Len(p) + 1, Len(s)) = p
TrimPrefix(s, p) == IF HasPrefix(s, p) THEN SubSeq(s, Len(p) + 1, Len(s)) ELSE s
TrimSuffix(s, p) == IF HasSuffix(s, p) THEN SubSeq(s, 1, Len(s) - Len(p)) ELSE s

\* strings.ReplaceAll(s, old, new) for a non-empty old: non-overlapping
\* occurrences, leftmost first
RECURSIVE ReplaceAll(_, _, _)
ReplaceAll(s, old, new) ==
    IF Len(s) < Len(old) THEN s
    ELSE IF SubSeq(s, 1, Len(old)) = old
         THEN new \o ReplaceAll(SubSeq(s, Len(old) + 1, Len(s)), old, new)
         ELSE <<Head(s)>> \o ReplaceAll(Tail(s), old, new)

-----------------------------------------------------------------------------
(* Matrix expander *)

\* the character class [_a-zA-Z0-9.-] of variableSubstitutionFormat
IdentToken(t) == t \notin {"$", "(", ")", " "}

\* the last position of the maximal run of identifier tokens starting at i
\* (i - 1 when there is none)
RECURSIVE RunEnd(_, _)
RunEnd(s, i) ==
    IF i <= Len(s) /\ IdentToken(s[i]) THEN RunEnd(s, i + 1) ELSE i - 1

\* variableSubstitutionFormat: \$\( ident+ (\. ident+)* \) matched at position
\* i of s; the position of the closing parenthesis, 0 when there is no match
MatchEnd(s, i) ==
    IF i + 1 <= Len(s) /\ s[i] = "$" /\ s[i + 1] = "("
    THEN LET j == RunEnd(s, i + 2)
         IN  IF j >= i + 2 /\ j + 1 <= Len(s) /\ s[j + 1] = ")" THEN j + 1 ELSE 0
    ELSE 0

\* variableSubstitutionRegex.FindAllString(value, -1)
RECURSIVE FindAllStringFrom(_, _)
FindAllStringFrom(s, i) ==
    IF i > Len(s) THEN <<>>
    ELSE LET e == MatchEnd(s, i)
         IN  IF e = 0 THEN FindAllStringFrom(s, i + 1)
             ELSE <<SubSeq(s, i, e)>> \o FindAllStringFrom(s, e + 1)

FindAllString(s) == FindAllStringFrom(s, 1)

stripVarSubExpression(expression) ==
    TrimSuffix(TrimPrefix(expression, <<"$", "(">>), <<")">>)

\* the loop of validateString: strip each expression, keep its first occurrence
RECURSIVE Dedup(_, _)
Dedup(expressions, seen) ==
    IF expressions = <<>> THEN <<>>
    ELSE LET e == stripVarSubExpression(Head(expressions))
         IN  IF e \in seen THEN Dedup(Tail(expressions), seen)
             ELSE <<e>> \o Dedup(Tail(expressions), seen \cup {e})

validateString(value) == Dedup(FindAllString(value), {})

getVarSubstitutionExpressions(s) == validateString(s)

replace(str, expKey, expVal) ==
    ReplaceAll(str, <<"$", "(", "matrix", ".">> \o expKey \o <<")">>, expVal)

\* matrix[key] of a Go map: the nil list for a missing key
Lookup(m, key) == IF key \in DOMAIN m THEN m[key] ELSE <<>>

RECURSIVE resolveCombinations(_, _, _, _)
RECURSIVE resolveValues(_, _, _, _, _)
\* the list of results appended to *res by resolveCombinations(combs, dest, start, ...)
resolveCombinations(combs, dest, start, m) ==
    IF start = Len(combs) THEN <<dest>>
    ELSE resolveValues(combs, dest, start, m, 1)
\* the iterations i, i+1, ... of the loop over lst
resolveValues(combs, dest, start, m, i) ==
    LET lst == Lookup(m, combs[start + 1])
    IN  IF i > Len(lst) THEN <<>>
        ELSE resolveCombinations(combs, replace(dest, combs[start + 1], lst[i]), start + 1, m)
             \o resolveValues(combs, dest, start, m, i + 1)

\* a faulty variant: the loop without the membership test on the matrix
RECURSIVE CombsUnchecked(_, _)
CombsUnchecked(subsExps, m) ==
    IF subsExps = <<>> THEN <<>>
    ELSE <<TrimPrefix(Head(subsExps), <<"matrix", ".">>)>> \o CombsUnchecked(Tail(subsExps), m)

\* the loop of applyMatrix that keeps the expressions naming a matrix axis
RECURSIVE Combs(_, _)
Combs(subsExps, m) ==
    IF subsExps = <<>> THEN <<>>
    ELSE LET exp == TrimPrefix(Head(subsExps), <<"matrix", ".">>)
         IN  (IF exp \in DOMAIN m THEN <<exp>> ELSE <<>>) \o Combs(Tail(subsExps), m)

applyMatrix(s, m) ==
    LET subsExps == getVarSubstitutionExpressions(s)
    IN  IF Len(subsExps) = 0 THEN <<s>>
        ELSE resolveCombinations(Combs(subsExps, m), s, 0, m)

\* ---- inputs of the matrix expander

\* the placeholder $(matrix.<axis>) and the expression $(<axis>)
Placeholder(axis) == <<"$", "(", "matrix", ".">> \o axis \o <<")">>
BareExpression(axis) == <<"$", "(">> \o axis \o <<")">>

\* axis names: "a" and "b" may be keys of the matrix, "c" never is
AxisNames == {<<"a">>, <<"b">>}
AxisValues(axis) ==
    IF axis = <<"a">> THEN << <<"x">>, <<"y">>, <<"z">> >>
    ELSE << <<"u">>, <<"v">>, <<"w">> >>

\* the pieces templates are built from
Pieces ==
    { <<"n">>, <<" ">>,
      Placeholder(<<"a">>), Placeholder(<<"b">>), Placeholder(<<"c">>),
      BareExpression(<<"a">>),
      <<"$", "(", ")">> }

Templates == {Flatten(ps) : ps \in SeqsUpTo(Pieces, MaxPieces)}

\* an axis is absent or maps to the first n values of its value list
Matrices ==
    { [axis \in keys |-> SubSeq(AxisValues(axis), 1, n[axis])] :
        keys \in SUBSET AxisNames, n \in [AxisNames -> 0..MaxVals] }

MatrixInputs ==
    /\ yamlStr \in Templates
    /\ matrix \in Matrices
    /\ res = <<>>
    /\ mpc = "start"

\* the matrix expander is not in use
MatrixIdle ==
    /\ yamlStr = <<>>
    /\ matrix = <<>>
    /\ res = <<>>
    /\ mpc = "idle"

ApplyMatrix ==
    /\ mpc = "start"
    /\ res' = applyMatrix(yamlStr, matrix)
    /\ mpc' = "done"
    /\ UNCHANGED <<yamlStr, matrix>>
    /\ UNCHANGED <<reqVars, compileVars>>

-----------------------------------------------------------------------------
(* Requirement resolver: tools/prowgen/pkg/decorator/requirement.go *)

\* Go maps with string keys are functions; a missing key is not in the domain
EmptyMap == [k \in {} |-> <<>>]

\* for k, v := range src { dst[k] = v }
Upsert(dst, src) ==
    [k \in DOMAIN dst \cup DOMAIN src |-> IF k \in DOMAIN src THEN src[k] ELSE dst[k]]

EnvVar(name, value) == [Name |-> name, Value |-> value]

\* strconv.Itoa of a non-negative int
Digit(d) == <<"0", "1", "2", "3", "4", "5", "6", "7", "8", "9">>[d + 1]
RECURSIVE Itoa(_)
Itoa(n) == IF n < 10 THEN <<Digit(n)>> ELSE Itoa(n \div 10) \o <<Digit(n % 10)>>

\* json.Marshal of a []spec.Secret: a JSON array of one object per secret
RECURSIVE MarshalItems(_)
MarshalItems(secrets) ==
    IF secrets = <<>> THEN <<>>
    ELSE <<"{", Head(secrets), "}">>
         \o (IF Tail(secrets) = <<>> THEN <<>> ELSE <<",">>)
         \o MarshalItems(Tail(secrets))
Marshal(secrets) == <<"[">> \o MarshalItems(secrets) \o <<"]">>

\* validate(req, validRequirements, ...) of ApplyRequirements fails
InvalidNames(names, pm) == {names[i] : i \in {j \in 1..Len(names) : names[j] \notin DOMAIN pm}}

\* the presets of the requirements that are not excluded, in order
RECURSIVE ResolvedPresets(_, _, _)
ResolvedPresets(reqs, blocked, pm) ==
    IF reqs = <<>> THEN <<>>
    ELSE (IF Head(reqs) \in blocked THEN <<>> ELSE <<pm[Head(reqs)]>>)
         \o ResolvedPresets(Tail(reqs), blocked, pm)

\* a faulty variant: every env var of the preset is appended
MergeEnvAlways(env, add) == env \o add

\* for _, e1 := range req.Env: append e1 unless the container has an env var
\* of that name
RECURSIVE MergeEnv(_, _)
MergeEnv(env, add) ==
    IF add = <<>> THEN env
    ELSE MergeEnv(IF \E i \in 1..Len(env) : env[i].Name = Head(add).Name
                  THEN env ELSE Append(env, Head(add)),
                  Tail(add))

\* for _, vl1 := range req.Volumes: append unless a volume has that name
RECURSIVE MergeVolumes(_, _)
MergeVolumes(volumes, add) ==
    IF add = <<>> THEN volumes
    ELSE MergeVolumes(IF \E i \in 1..Len(volumes) : volumes[i].Name = Head(add).Name
                      THEN volumes ELSE Append(volumes, Head(add)),
                      Tail(add))

\* for _, vm1 := range req.VolumeMounts: append unless a mount has that path
RECURSIVE MergeVolumeMounts(_, _)
MergeVolumeMounts(mounts, add) ==
    IF add = <<>> THEN mounts
    ELSE MergeVolumeMounts(IF \E i \in 1..Len(mounts) : mounts[i].MountPath = Head(add).MountPath
                           THEN mounts ELSE Append(mounts, Head(add)),
                           Tail(add))

\* mergo.Merge(spec, req.PodSpec) without options: a field of spec that is
\* empty is set from the overlay, a field that is not empty is kept
mergoMerge(spec, overlay) ==
    [spec EXCEPT
        !.Containers = IF spec.Containers = <<>> THEN overlay.Containers ELSE @,
        !.Volumes = IF spec.Volumes = <<>> THEN overlay.Volumes ELSE @,
        !.ServiceAccountName = IF spec.ServiceAccountName = "" THEN overlay.ServiceAccountName ELSE @]

\* mergeRequirement(annotations, labels, spec, spec.Containers, &spec.Volumes, req)
\* on a job whose Spec is not nil
mergeRequirement(j, req) ==
    LET containers ==
            [i \in 1..Len(j.Spec.Containers) |->
                [j.Spec.Containers[i] EXCEPT
                    !.Args = @ \o req.Args,
                    !.Env = MergeEnv(@, req.Env),
                    !.VolumeMounts = MergeVolumeMounts(@, req.VolumeMounts)]]
        merged ==
            [j.Spec EXCEPT
                !.Containers = containers,
                !.Volumes = MergeVolumes(@, req.Volumes)]
    IN  [j EXCEPT
            !.Annotations = Upsert(@, req.Annotations),
            !.Labels = Upsert(@, req.Labels),
            !.Spec = IF req.PodSpec.isNil THEN merged ELSE mergoMerge(merged, req.PodSpec)]

RECURSIVE resolveRequirements(_, _)
resolveRequirements(j, presets) ==
    IF j.Spec.isNil \/ presets = <<>> THEN j
    ELSE resolveRequirements(mergeRequirement(j, Head(presets)), Tail(presets))

\* the secrets of the presets, in preset order
RECURSIVE SecretsOf(_)
SecretsOf(presets) ==
    IF presets = <<>> THEN <<>> ELSE Head(presets).Secrets \o SecretsOf(Tail(presets))

\* a faulty variant: the secrets are injected into the first container without the
\* check on the number of containers
applySecrets_noCheck(j, presets) ==
    LET secrets == SecretsOf(presets)
    IN  IF Len(secrets) = 0 THEN [job |-> j, outcome |-> "ok"]
        ELSE IF j.Spec.isNil \/ Len(j.Spec.Containers) = 0 THEN [job |-> j, outcome |-> "panic"]
        ELSE [job |-> [j EXCEPT !.Spec.Containers[1].Env =
                            Append(@, EnvVar("GCP_SECRETS", Marshal(secrets)))],
              outcome |-> "ok"]

\* applySecrets: the job afterwards and how the call ended; dereferencing a
\* nil job.Spec panics
applySecrets(j, presets) ==
    LET secrets == SecretsOf(presets)
    IN  IF Len(secrets) = 0 THEN [job |-> j, outcome |-> "ok"]
        ELSE IF j.Spec.isNil THEN [job |-> j, outcome |-> "panic"]
        ELSE IF Len(j.Spec.Containers) # 1 THEN [job |-> j, outcome |-> "fatal"]
        ELSE [job |-> [j EXCEPT !.Spec.Containers[1].Env =
                            Append(@, EnvVar("GCP_SECRETS", Marshal(secrets)))],
              outcome |-> "ok"]

\* int(math.Ceil(float64(milli) / 1000))
CeilCores(milli) == (milli + 999) \div 1000

applyAutoMaxProcs(bc, j) ==
    IF ~bc.AutoMaxProcs THEN [job |-> j, outcome |-> "ok"]
    ELSE IF j.Spec.isNil THEN [job |-> j, outcome |-> "panic"]
    ELSE [job |-> [j EXCEPT !.Spec.Containers =
                        [i \in 1..Len(@) |->
                            IF @[i].CpuLimit # 0
                            THEN [@[i] EXCEPT !.Env =
                                    Append(@, EnvVar("GOMAXPROCS", Itoa(CeilCores(j.Spec.Containers[i].CpuLimit))))]
                            ELSE @[i]]],
          outcome |-> "ok"]

\* ApplyRequirements(baseConfig, job, requirements, excludedRequirements, presetMap):
\* the job afterwards and how the call ended
ApplyRequirementsResult(bc, j, reqs, excluded, pm) ==
    IF InvalidNames(reqs, pm) \cup InvalidNames(excluded, pm) # {}
    THEN [job |-> j, outcome |-> "fatal"]
    ELSE LET presets == ResolvedPresets(reqs, Range(excluded), pm)
             merged == resolveRequirements(j, presets)
             withSecrets == applySecrets(merged, presets)
         IN  IF withSecrets.outcome # "ok" THEN withSecrets
             ELSE applyAutoMaxProcs(bc, withSecrets.job)

\* ---- inputs of the requirement resolver

NilPodSpec == [isNil |-> TRUE, Containers |-> <<>>, Volumes |-> <<>>, ServiceAccountName |-> ""]

Container(env, cpu) ==
    [Env |-> env, Args |-> <<"run">>, VolumeMounts |-> <<>>, CpuLimit |-> cpu]

Volume(name, source) == [Name |-> name, Source |-> source]
Mount(name, path) == [Name |-> name, MountPath |-> path]

\* the preset store handed to ApplyRequirements
PresetStore ==
    [name \in {"p1", "p2", "p3"} |->
        CASE name = "p1" ->
               [Annotations |-> EmptyMap,
                Labels |-> [l |-> <<"p1">>],
                Env |-> <<EnvVar("X", <<"1">>)>>,
                Args |-> <<"--p1">>,
                Volumes |-> <<Volume("v1", "p1")>>,
                VolumeMounts |-> <<Mount("v1", "/m1")>>,
                Secrets |-> <<"s1">>,
                PodSpec |-> NilPodSpec]
          [] name = "p2" ->
               [Annotations |-> [k |-> <<"p2">>],
                Labels |-> [l |-> <<"p2">>],
                Env |-> <<EnvVar("X", <<"2">>), EnvVar("Y", <<"2">>), EnvVar("Y", <<"3">>),
                          EnvVar("GOMAXPROCS", <<"8">>)>>,
                Args |-> <<>>,
                Volumes |-> <<Volume("v1", "p2"), Volume("v2", "p2")>>,
                VolumeMounts |-> <<Mount("v2", "/m1"), Mount("v2", "/m2")>>,
                Secrets |-> <<>>,
                PodSpec |-> NilPodSpec]
          [] OTHER ->
               [Annotations |-> EmptyMap,
                Labels |-> EmptyMap,
                Env |-> <<EnvVar("Y", <<"4">>)>>,
                Args |-> <<>>,
                Volumes |-> <<>>,
                VolumeMounts |-> <<>>,
                Secrets |-> <<"s3", "s4">>,
                PodSpec |-> [isNil |-> FALSE,
                             Containers |-> <<Container(<<EnvVar("Z", <<"5">>)>>, 0)>>,
                             Volumes |-> <<Volume("v3", "p3")>>,
                             ServiceAccountName |-> "p3-sa"]]]

RequirementNames == {"p1", "p2", "p3", "nope"}

ExcludedChoices == {<<>>, <<"p1">>, <<"p3">>, <<"nope">>}

ContainerChoices ==
    {Container(<<>>, 0), Container(<<EnvVar("X", <<"0">>)>>, 0), Container(<<>>, 1500)}

PodSpecChoices ==
    {NilPodSpec}
    \cup {[isNil |-> FALSE, Containers |-> cs, Volumes |-> f[1], ServiceAccountName |-> f[2]] :
            cs \in SeqsUpTo(ContainerChoices, MaxContainers),
            f \in {<< <<>>, "" >>, << <<Volume("v1", "job")>>, "job-sa" >>}}

JobChoices ==
    {[Annotations |-> EmptyMap, Labels |-> [l |-> <<"job">>], Spec |-> ps] : ps \in PodSpecChoices}

ReqInputs ==
    /\ baseConfig \in {[AutoMaxProcs |-> b] : b \in BOOLEAN}
    /\ job0 \in JobChoices
    /\ job = job0
    /\ requirements \in SeqsUpTo(RequirementNames, MaxReqs)
    /\ excludedRequirements \in ExcludedChoices
    /\ presetMap = PresetStore
    /\ rpc = "start"

\* the requirement resolver is not in use
ReqIdle ==
    /\ baseConfig = [AutoMaxProcs |-> FALSE]
    /\ job0 = <<>>
    /\ job = <<>>
    /\ requirements = <<>>
    /\ excludedRequirements = <<>>
    /\ presetMap = <<>>
    /\ rpc = "idle"

ApplyRequirements ==
    /\ rpc = "start"
    /\ LET r == ApplyRequirementsResult(baseConfig, job, requirements, excludedRequirements, presetMap)
       IN  /\ job' = r.job
           /\ rpc' = IF r.outcome = "ok" THEN "done" ELSE r.outcome
    /\ UNCHANGED <<baseConfig, job0, requirements, excludedRequirements, presetMap>>
    /\ UNCHANGED <<matrixVars, compileVars>>

-----------------------------------------------------------------------------
(* Job compiler: GlobalConfig, JobsConfig, Job and the heap of Go maps *)

(***************************************************************************)
(* A Go map is a reference.  The maps that the program shares between      *)
(* objects (GlobalConfig's annotations, labels, resources and requirement  *)
(* presets, and the maps of compiled jobs) live in heap; such a field      *)
(* holds a reference: a position of heap, or NilRef for the nil map.  The  *)
(* maps of a parsed document and the node selectors, which nothing writes  *)
(* to after parsing, are held by value, as NilMap or MapOf(f).             *)
(*                                                                         *)
(* Of a job only the fields are modelled on which the state below depends: *)
(* not its command, image pull policy, change regex, modifiers, timeout,   *)
(* extra repositories and path alias.                                      *)
(***************************************************************************)
NilRef == 0

NilMap == [isNil |-> TRUE, kv |-> EmptyMap]
MapOf(f) == [isNil |-> FALSE, kv |-> f]

\* the positions of heap that hold GlobalConfig's maps
AnnotationsSlot == 1
LabelsSlot == 2
ResourcesSlot == 3
PresetsSlot == 4

\* m[k] = v on the map at ref
HeapPut(h, ref, k, v) == [h EXCEPT ![ref] = Upsert(@, [x \in {k} |-> v])]

\* the zero value of RequirementPreset, which presetMap[req] gives for a
\* missing key
ZeroPreset ==
    [Annotations |-> EmptyMap, Labels |-> EmptyMap, Env |-> <<>>, Args |-> <<>>,
     Volumes |-> <<>>, VolumeMounts |-> <<>>, Secrets |-> <<>>, PodSpec |-> NilPodSpec]

contains(slice, item) == item \in Range(slice)

\* ---- ReadJobConfig

\* the effective map of ReadJobConfig: GlobalConfig's map itself, or a new map
\* when that is nil, with the document's entries written into it
ReadMerge(h, globalRef, local) ==
    LET ref == IF globalRef = NilRef THEN Len(h) + 1 ELSE globalRef
        h1 == IF globalRef = NilRef THEN Append(h, EmptyMap) ELSE h
    IN  [ref |-> ref, heap |-> [h1 EXCEPT ![ref] = Upsert(@, local.kv)]]

\* ReadJobConfig(file) for the parsed document doc: the JobsConfig returned
\* and the heap afterwards
ReadJobConfigResult(h, g, doc) ==
    LET resources == ReadMerge(h, g.Resources, doc.Resources)
        presets == ReadMerge(resources.heap, g.RequirementPresets, doc.RequirementPresets)
    IN  [heap |-> presets.heap,
         jobs |-> [doc EXCEPT
                     !.Branches = IF Len(@) = 0 THEN <<"master">> ELSE @,
                     !.Resources = resources.ref,
                     !.RequirementPresets = presets.ref]]

\* ---- ValidateJobConfig

\* cron.Parse and time.ParseDuration accept the string
ValidCron(s) == s \in {"@daily", "0 0 * * *"}
ValidDuration(s) == s \in {"1h", "30m"}

\* validate(input, options, description) fails
Invalid(input, options) == input \notin options

\* a faulty variant: the check of a periodic job that forgets the case of both set
ScheduleErrors_noBothSet(j) ==
    IF ~contains(j.Types, "periodic") THEN {}
    ELSE IF j.Cron = "" /\ j.Interval = "" THEN {"cron and interval both empty"}
    ELSE IF j.Cron # "" THEN (IF ValidCron(j.Cron) THEN {} ELSE {"invalid cron"})
    ELSE IF ValidDuration(j.Interval) THEN {} ELSE {"invalid interval"}

\* the errors of the schedule check of one job
ScheduleErrors(j) ==
    IF ~contains(j.Types, "periodic") THEN {}
    ELSE IF j.Cron # "" /\ j.Interval # "" THEN {"cron and interval both set"}
    ELSE IF j.Cron = "" /\ j.Interval = "" THEN {"cron and interval both empty"}
    ELSE IF j.Cron # "" THEN (IF ValidCron(j.Cron) THEN {} ELSE {"invalid cron"})
    ELSE IF ValidDuration(j.Interval) THEN {} ELSE {"invalid interval"}

\* the errors ValidateJobConfig collects for job number i
JobErrors(h, jc, i) ==
    LET j == jc.Jobs[i]
        requirementNames == DOMAIN h[jc.RequirementPresets]
        Err(kind) == [job |-> i, kind |-> kind]
    IN  (IF j.Resources # "" /\ j.Resources \notin DOMAIN h[jc.Resources]
         THEN {Err("nonexistant resource")} ELSE {})
        \cup {Err("invalid requirement") : r \in {x \in Range(j.Requirements) :
                                                    Invalid(x, requirementNames)}}
        \cup {Err(k) : k \in ScheduleErrors(j)}
        \cup {Err("invalid type") : t \in {x \in Range(j.Types) :
                    Invalid(x, {"postsubmit", "presubmit", "periodic"})}}

\* the errors ValidateJobConfig collects; job 0 stands for the document
ValidateErrors(h, jc) ==
    (IF jc.Image = "" THEN {[job |-> 0, kind |-> "image must be set"]} ELSE {})
    \cup {[job |-> 0, kind |-> "invalid requirement"] :
            r \in {x \in Range(jc.Requirements) : Invalid(x, DOMAIN h[jc.RequirementPresets])}}
    \cup UNION {JobErrors(h, jc, i) : i \in 1..Len(jc.Jobs)}

\* ---- createContainer, createJobBase

\* a faulty variant: mp1 wins on duplicated keys
mergeMaps_mp1Wins(mp1, mp2) == Upsert(Upsert(EmptyMap, mp2), mp1)

\* mergeMaps(mp1, mp2): a new map, mp2 winning on duplicated keys
mergeMaps(mp1, mp2) == Upsert(Upsert(EmptyMap, mp1), mp2)

createContainer(jobConfig, j, resources) ==
    LET envs == IF Len(j.Env) = 0 THEN jobConfig.Env ELSE j.Env \o jobConfig.Env
        jobResource == IF j.Resources # "" THEN j.Resources ELSE "default"
    IN  <<[Image |-> IF j.Image = "" THEN jobConfig.Image ELSE j.Image,
           Env |-> envs,
           Args |-> <<>>,
           VolumeMounts |-> <<>>,
           CpuLimit |-> IF jobResource \in DOMAIN resources THEN resources[jobResource] ELSE 0]>>

\* the three-level assignment of createJobBase to jb.Annotations or jb.Labels:
\* the map the field ends up referring to, as ref (NilRef: a map made by this
\* call, not yet on the heap) and contents
Layered(h, globalRef, groupMap, jobMap) ==
    LET made == [ref |-> NilRef, kv |-> EmptyMap]
        l1 == IF globalRef # NilRef THEN [ref |-> globalRef, kv |-> h[globalRef]] ELSE made
        l2 == IF ~groupMap.isNil THEN [ref |-> NilRef, kv |-> mergeMaps(l1.kv, groupMap.kv)] ELSE l1
    IN  IF ~jobMap.isNil THEN [ref |-> NilRef, kv |-> mergeMaps(l2.kv, jobMap.kv)] ELSE l2

\* the heap with the map of a Layered result on it, and the reference to it
Placed(h, l) ==
    IF l.ref # NilRef THEN [heap |-> h, ref |-> l.ref]
    ELSE [heap |-> Append(h, l.kv), ref |-> Len(h) + 1]

\* the node selector createJobBase assigns
NodeSelectorOf(g, jobConfig, j) ==
    IF ~j.NodeSelector.isNil THEN j.NodeSelector
    ELSE IF ~jobConfig.NodeSelector.isNil THEN jobConfig.NodeSelector
    ELSE g.NodeSelector

\* the cluster createJobBase assigns
ClusterOf(g, jobConfig, j) ==
    LET Set(c) == c # "" /\ c # "default"
    IN  IF Set(j.Cluster) THEN j.Cluster
        ELSE IF Set(jobConfig.Cluster) THEN jobConfig.Cluster
        ELSE IF Set(g.Cluster) THEN g.Cluster
        ELSE ""

\* createJobBase(globalConfig, jobConfig, job, name, branch, resources): the
\* JobBase and the heap afterwards
createJobBase(h, g, jobConfig, j, name) ==
    LET annotations == Placed(h, Layered(h, g.Annotations, jobConfig.Annotations, j.Annotations))
        labels == Placed(annotations.heap, Layered(annotations.heap, g.Labels, jobConfig.Labels, j.Labels))
    IN  [heap |-> labels.heap,
         jb |-> [Name |-> name,
                 Annotations |-> annotations.ref,
                 Labels |-> labels.ref,
                 Cluster |-> ClusterOf(g, jobConfig, j),
                 Spec |-> [isNil |-> FALSE,
                           Containers |-> createContainer(jobConfig, j, h[jobConfig.Resources]),
                           Volumes |-> <<>>,
                           ServiceAccountName |-> "",
                           NodeSelector |-> NodeSelectorOf(g, jobConfig, j)]]]

\* ---- ConvertJobConfig

\* a map field of a job after yaml.Marshal and yaml.Unmarshal: the fields are
\* omitempty, so an empty map is left out and parsed back as nil
Reparsed(m) == IF m.kv = EmptyMap THEN NilMap ELSE m

\* applyMatrixJob: the job is serialized, expanded and parsed back; of the
\* jobs enumerated here only the name holds substitution expressions
applyMatrixJob(j, m) ==
    LET names == applyMatrix(j.Name, m)
    IN  [i \in 1..Len(names) |->
            [j EXCEPT !.Name = names[i],
                      !.NodeSelector = Reparsed(@),
                      !.Annotations = Reparsed(@),
                      !.Labels = Reparsed(@)]]

\* requirements := settings.BaseRequirements, then each of
\* append(job.Requirements, jobsConfig.Requirements...) not yet contained
RECURSIVE AppendMissing(_, _)
AppendMissing(reqs, more) ==
    IF more = <<>> THEN reqs
    ELSE AppendMissing(IF contains(reqs, Head(more)) THEN reqs ELSE Append(reqs, Head(more)),
                       Tail(more))

RequirementsOf(g, jobConfig, j) ==
    AppendMissing(g.BaseRequirements, j.Requirements \o jobConfig.Requirements)

\* presetMap[req] for each requirement: the zero preset for a name that is no
\* key of the map, and for every name when the map is nil
PresetsFor(h, presetRef, reqs) ==
    [i \in 1..Len(reqs) |->
        IF presetRef # NilRef /\ reqs[i] \in DOMAIN h[presetRef]
        THEN h[presetRef][reqs[i]] ELSE ZeroPreset]

\* the lookups presetMap[req] of one applyRequirements call: the name and
\* whether it was a key
LookupsFor(h, presetRef, reqs) ==
    {[name |-> reqs[i], found |-> presetRef # NilRef /\ reqs[i] \in DOMAIN h[presetRef]] :
        i \in 1..Len(reqs)}

\* applyRequirements(job, requirements, presetMap): resolveRequirements on the
\* job's label map and pod spec
applyRequirements(h, jb, reqs, presetRef) ==
    LET merged == resolveRequirements(
                    [Annotations |-> EmptyMap, Labels |-> h[jb.Labels], Spec |-> jb.Spec],
                    PresetsFor(h, presetRef, reqs))
    IN  [heap |-> [h EXCEPT ![jb.Labels] = merged.Labels],
         jb |-> [jb EXCEPT !.Spec = merged.Spec]]

\* the testgrid annotations ConvertJobConfig writes for a job of the kind
TestgridAnnotations(g, prefix, kind) ==
    IF ~g.TestgridConfig.Enabled THEN EmptyMap
    ELSE IF kind = "presubmit" THEN [k \in {"testgrid-dashboards"} |-> prefix]
    ELSE [k \in {"testgrid-dashboards", "testgrid-alert-email", "testgrid-num-failures-to-alert"} |->
            CASE k = "testgrid-dashboards" -> prefix \o <<"_", kind>>
              [] k = "testgrid-alert-email" -> g.TestgridConfig.AlertEmail
              [] OTHER -> g.TestgridConfig.NumFailuresToAlert]

\* the text of a branch name, in the pieces of which names are made
BranchText(branch) == IF branch = "r_x" THEN <<"r", "_", "x">> ELSE <<branch>>

\* whether ConvertJobConfig compiles the job as the kind
Selected(j, kind) ==
    IF kind = "periodic" THEN contains(j.Types, "periodic")
    ELSE Len(j.Types) = 0 \/ contains(j.Types, kind)

\* the name of the descriptor of the kind
NameOf(jobConfig, j, branch, kind) ==
    j.Name \o <<"_", jobConfig.Repo>>
        \o (IF branch # "master" THEN <<"_">> \o BranchText(branch) ELSE <<>>)
        \o (IF kind = "presubmit" THEN <<>> ELSE <<"_", kind>>)

\* one block of the loop body of ConvertJobConfig: the descriptor of the kind
\* is built and appended.  st holds the heap, the three lists and the lookups.
CompileKind(st, g, jobConfig, j, branch, kind) ==
    IF ~Selected(j, kind) THEN st
    ELSE
    LET prefix == <<jobConfig.Org>> \o (IF branch # "master" THEN <<"_", branch>> ELSE <<>>)
                    \o <<"_", jobConfig.Repo>>
        reqNames == RequirementsOf(g, jobConfig, j)
        base == createJobBase(st.heap, g, jobConfig, j, NameOf(jobConfig, j, branch, kind))
        h1 == [base.heap EXCEPT ![base.jb.Annotations] =
                    Upsert(@, TestgridAnnotations(g, prefix, kind))]
        applied == applyRequirements(h1, base.jb, reqNames, g.RequirementPresets)
        descriptor == [JobBase |-> applied.jb,
                       Job |-> j.Name,
                       Branch |-> branch,
                       Interval |-> IF kind = "periodic" THEN j.Interval ELSE "",
                       Cron |-> IF kind = "periodic" THEN j.Cron ELSE ""]
    IN  [st EXCEPT
            !.heap = applied.heap,
            !.lookups = @ \cup LookupsFor(h1, g.RequirementPresets, reqNames),
            ![kind] = Append(@, descriptor)]

\* the loop body of ConvertJobConfig for one expanded job
CompileJob(st, g, jobConfig, j, branch) ==
    CompileKind(
        CompileKind(
            CompileKind(st, g, jobConfig, j, branch, "presubmit"),
            g, jobConfig, j, branch, "postsubmit"),
        g, jobConfig, j, branch, "periodic")

RECURSIVE CompileJobs(_, _, _, _, _)
CompileJobs(st, g, jobConfig, js, branch) ==
    IF js = <<>> THEN st
    ELSE CompileJobs(CompileJob(st, g, jobConfig, Head(js), branch), g, jobConfig, Tail(js), branch)

\* ConvertJobConfig(jobsConfig, branch): the heap afterwards, the descriptors
\* of the three kinds and the preset lookups made
ConvertJobConfigResult(h, g, jobConfig, branch) ==
    CompileJobs([heap |-> h, lookups |-> {},
                 presubmit |-> <<>>, postsubmit |-> <<>>, periodic |-> <<>>],
                g, jobConfig,
                Flatten([i \in 1..Len(jobConfig.Jobs) |-> applyMatrixJob(jobConfig.Jobs[i], jobConfig.Matrix)]),
                branch)

\* ---- inputs of the job compiler

\* requirement presets of the compiler's preset maps
LabelPreset(key, name) ==
    [ZeroPreset EXCEPT !.Labels = [k \in {key} |-> <<name>>],
                       !.Env = <<EnvVar("X", <<name>>)>>]

\* GlobalConfig as ReadGlobalSettings returns it, and the heap holding its
\* maps; a map given as NilMap is nil
GlobalWith(annotations, labels, nodeSelector, cluster, resources, presets, base, testgrid) ==
    [heap |-> <<annotations.kv, labels.kv, resources.kv, presets.kv>>,
     g |-> [Annotations |-> IF annotations.isNil THEN NilRef ELSE AnnotationsSlot,
            Labels |-> IF labels.isNil THEN NilRef ELSE LabelsSlot,
            Resources |-> IF resources.isNil THEN NilRef ELSE ResourcesSlot,
            RequirementPresets |-> IF presets.isNil THEN NilRef ELSE PresetsSlot,
            NodeSelector |-> nodeSelector,
            Cluster |-> cluster,
            BaseRequirements |-> base,
            TestgridConfig |-> [Enabled |-> testgrid,
                                AlertEmail |-> <<"mail">>,
                                NumFailuresToAlert |-> <<"3">>]]]

GlobalChoices ==
    {IF mapsSet
     THEN GlobalWith(MapOf([a |-> <<"1">>]), MapOf([a |-> <<"1">>]), MapOf([n |-> <<"g">>]), "gc",
                     MapOf([default |-> 1000]), MapOf([p1 |-> LabelPreset("l", "p1")]),
                     base, testgrid)
     ELSE GlobalWith(NilMap, NilMap, NilMap, "", NilMap, NilMap, base, testgrid) :
        mapsSet \in BOOLEAN, testgrid \in BOOLEAN, base \in {<<>>, <<"p1">>}}

BaseJob ==
    [Name |-> <<"j">>, Env |-> <<>>, Types |-> <<>>, Image |-> "",
     Interval |-> "", Cron |-> "", Cluster |-> "", NodeSelector |-> NilMap,
     Annotations |-> NilMap, Labels |-> NilMap, Resources |-> "", Requirements |-> <<>>]

BaseDoc ==
    [Jobs |-> <<BaseJob>>, Repo |-> "r", Org |-> "o", Branches |-> <<>>,
     Matrix |-> EmptyMap, Env |-> <<>>, Image |-> "img", Cluster |-> "",
     NodeSelector |-> NilMap, Annotations |-> NilMap, Labels |-> NilMap,
     Resources |-> NilMap, Requirements |-> <<>>, RequirementPresets |-> NilMap]

\* documents that differ in the annotations and labels of the group and the job
DocsMaps ==
    {[BaseDoc EXCEPT !.Annotations = gm, !.Labels = gm,
                     !.Jobs = <<[BaseJob EXCEPT !.Annotations = jm, !.Labels = jm]>>] :
        gm \in {NilMap, MapOf([a |-> <<"2">>, b |-> <<"2">>])},
        jm \in {NilMap, MapOf([b |-> <<"3">>])}}

\* documents with resource profiles and presets of their own
DocsLocal ==
    {[BaseDoc EXCEPT !.Resources = MapOf([big |-> 2000]),
                     !.RequirementPresets = MapOf([p2 |-> LabelPreset("m", "p2")]),
                     !.Requirements = greqs,
                     !.Jobs = <<[BaseJob EXCEPT !.Requirements = jreqs, !.Resources = jres]>>] :
        greqs \in {<<>>, <<"p2">>},
        jreqs \in {<<>>, <<"p1">>, <<"nope">>},
        jres \in {"", "big"}}

\* documents with one periodic job
DocsPeriodic ==
    {[BaseDoc EXCEPT !.Jobs = <<[BaseJob EXCEPT !.Types = types, !.Cron = cron, !.Interval = interval]>>] :
        types \in {<<"periodic">>, <<"presubmit", "periodic">>},
        cron \in {"", "@daily", "bad"},
        interval \in {"", "1h", "bad"}}

\* a document with two branches, a matrix and two jobs; one without an image;
\* one with an unknown trigger type; one that names a missing resource profile
DocsOther ==
    {[BaseDoc EXCEPT !.Branches = <<"master", "release-1">>,
                     !.Matrix = (<<"a">> :> << <<"x">>, <<"y">> >>),
                     !.Env = <<EnvVar("E", <<"group">>)>>,
                     !.Jobs = <<[BaseJob EXCEPT !.Name = <<"j", "-">> \o Placeholder(<<"a">>),
                                                !.Env = <<EnvVar("E", <<"job">>)>>],
                                [BaseJob EXCEPT !.Name = <<"k">>,
                                                !.Types = <<"postsubmit", "periodic">>,
                                                !.Interval = "30m"]>>],
     [BaseDoc EXCEPT !.Branches = <<"x", "r_x">>,
                     !.Jobs = <<BaseJob, [BaseJob EXCEPT !.Name = <<"j", "_", "r">>]>>],
     [BaseDoc EXCEPT !.Image = ""],
     [BaseDoc EXCEPT !.Jobs = <<[BaseJob EXCEPT !.Types = <<"bogus">>]>>],
     [BaseDoc EXCEPT !.Jobs = <<[BaseJob EXCEPT !.Resources = "missing"]>>]}

Docs == DocsMaps \cup DocsLocal \cup DocsPeriodic \cup DocsOther

\* the documents read after the first one
FollowUpDocs ==
    {BaseDoc,
     [BaseDoc EXCEPT !.Resources = MapOf([default |-> 3000])],
     [BaseDoc EXCEPT !.Requirements = <<"p2">>],
     [BaseDoc EXCEPT !.Jobs = <<[BaseJob EXCEPT !.Types = <<"periodic">>,
                                                !.Cron = "@daily", !.Interval = "1h"]>>]}

CompileInputs ==
    /\ \E c \in GlobalChoices : globalConfig = c.g /\ heap = c.heap
    /\ \E d \in Docs, rest \in SeqsUpTo(FollowUpDocs, MaxFiles - 1) : files = <<d>> \o rest
    /\ fileIdx = 0
    /\ jobsConfig = <<>>
    /\ branchIdx = 0
    /\ output = <<>>
    /\ errs = {}
    /\ lookups = {}
    /\ jobBase = <<>>
    /\ cpc = "idle"

\* the job compiler is not in use
CompileIdle ==
    /\ globalConfig = <<>>
    /\ heap = <<>>
    /\ files = <<>>
    /\ fileIdx = 0
    /\ jobsConfig = <<>>
    /\ branchIdx = 0
    /\ output = <<>>
    /\ errs = {}
    /\ lookups = {}
    /\ jobBase = <<>>
    /\ cpc = "off"

\* ---- the run of the tool: each file is read, validated and then compiled
\* once per branch

MayRead == cpc = "idle" /\ fileIdx < Len(files)
MayValidate == cpc = "read"
MayConvert == cpc = "valid"

ReadJobConfig ==
    /\ MayRead
    /\ LET r == ReadJobConfigResult(heap, globalConfig, files[fileIdx + 1])
       IN  /\ heap' = r.heap
           /\ jobsConfig' = r.jobs
    /\ fileIdx' = fileIdx + 1
    /\ branchIdx' = 0
    /\ cpc' = "read"
    /\ UNCHANGED <<globalConfig, files, output, errs, lookups, jobBase>>
    /\ UNCHANGED <<matrixVars, reqVars>>

\* a validation error ends the run: exit(err, "validation failed")
ValidateJobConfig ==
    /\ MayValidate
    /\ errs' = ValidateErrors(heap, jobsConfig)
    /\ cpc' = IF errs' = {} THEN "valid" ELSE "exit"
    /\ UNCHANGED <<globalConfig, heap, files, fileIdx, jobsConfig, branchIdx, output, lookups, jobBase>>
    /\ UNCHANGED <<matrixVars, reqVars>>

ConvertJobConfig ==
    /\ MayConvert
    /\ LET branch == jobsConfig.Branches[branchIdx + 1]
           r == ConvertJobConfigResult(heap, globalConfig, jobsConfig, branch)
       IN  /\ heap' = r.heap
           /\ lookups' = lookups \cup r.lookups
           /\ output' = Append(output, [file |-> fileIdx, branch |-> branch,
                                        presubmit |-> r.presubmit,
                                        postsubmit |-> r.postsubmit,
                                        periodic |-> r.periodic])
    /\ branchIdx' = branchIdx + 1
    /\ cpc' = IF branchIdx' = Len(jobsConfig.Branches) THEN "idle" ELSE "valid"
    /\ UNCHANGED <<globalConfig, files, fileIdx, jobsConfig, errs, jobBase>>
    /\ UNCHANGED <<matrixVars, reqVars>>

\* ---- createJobBase on its own

MapChoices(level) ==
    CASE level = "global" -> {NilMap, MapOf([a |-> <<"1">>]), MapOf([a |-> <<"1">>, c |-> <<"1">>])}
      [] level = "group" -> {NilMap, MapOf(EmptyMap), MapOf([a |-> <<"2">>, b |-> <<"2">>])}
      [] OTHER -> {NilMap, MapOf([b |-> <<"3">>]), MapOf([a |-> <<"4">>])}

\* the node selectors and clusters of the three levels
SelectorChoices(level) ==
    {NilMap, MapOf(EmptyMap), MapOf([n |-> <<level>>])}

ClusterChoices(level) == {"", "default", level}

\* the env lists of the group and of the job
GroupEnvChoices == {<<>>, <<EnvVar("E", <<"group">>)>>,
                    <<EnvVar("E", <<"group">>), EnvVar("G", <<"group">>)>>}
JobEnvChoices == {<<>>, <<EnvVar("E", <<"job">>)>>, <<EnvVar("F", <<"job">>)>>}

\* the inputs of createJobBase: the annotations and labels vary, or the node
\* selectors and clusters, or the env lists
PlainCase ==
    [ga |-> NilMap, gl |-> NilMap, da |-> NilMap, dl |-> NilMap, ja |-> NilMap, jl |-> NilMap,
     gn |-> NilMap, dn |-> NilMap, jn |-> NilMap, gc |-> "", dc |-> "", jc |-> "",
     denv |-> <<>>, jenv |-> <<>>]

JobBaseCases ==
    {[PlainCase EXCEPT !.ga = ga, !.gl = gl, !.da = da, !.dl = dl, !.ja = ja, !.jl = jl] :
        ga \in MapChoices("global"), gl \in MapChoices("global"),
        da \in MapChoices("group"), dl \in MapChoices("group"),
        ja \in MapChoices("job"), jl \in MapChoices("job")}
    \cup
    {[PlainCase EXCEPT !.gn = gn, !.dn = dn, !.jn = jn, !.gc = gc, !.dc = dc, !.jc = jc] :
        gn \in SelectorChoices("global"), dn \in SelectorChoices("group"),
        jn \in SelectorChoices("job"),
        gc \in ClusterChoices("global"), dc \in ClusterChoices("group"),
        jc \in ClusterChoices("job")}
    \cup
    {[PlainCase EXCEPT !.denv = denv, !.jenv = jenv] :
        denv \in GroupEnvChoices, jenv \in JobEnvChoices}

JobBaseInputs ==
    /\ \E x \in JobBaseCases :
            LET c == GlobalWith(x.ga, x.gl, x.gn, x.gc, NilMap, NilMap, <<>>, FALSE)
                doc == [BaseDoc EXCEPT !.Annotations = x.da, !.Labels = x.dl,
                                       !.NodeSelector = x.dn, !.Cluster = x.dc,
                                       !.Env = x.denv,
                                       !.Jobs = <<[BaseJob EXCEPT !.Annotations = x.ja,
                                                                  !.Labels = x.jl,
                                                                  !.NodeSelector = x.jn,
                                                                  !.Cluster = x.jc,
                                                                  !.Env = x.jenv]>>]
                r == ReadJobConfigResult(c.heap, c.g, doc)
            IN  /\ globalConfig = c.g
                /\ heap = r.heap
                /\ jobsConfig = r.jobs
                /\ files = <<doc>>
    /\ fileIdx = 1
    /\ branchIdx = 0
    /\ output = <<>>
    /\ errs = {}
    /\ lookups = {}
    /\ jobBase = <<>>
    /\ cpc = "base"

CreateJobBase ==
    /\ cpc = "base"
    /\ LET j == jobsConfig.Jobs[1]
           r == createJobBase(heap, globalConfig, jobsConfig, j,
                              NameOf(jobsConfig, j, jobsConfig.Branches[1], "presubmit"))
       IN  /\ heap' = r.heap
           /\ jobBase' = r.jb
    /\ cpc' = "based"
    /\ UNCHANGED <<globalConfig, files, fileIdx, jobsConfig, branchIdx, output, errs, lookups>>
    /\ UNCHANGED <<matrixVars, reqVars>>

-----------------------------------------------------------------------------
(* Specifications *)

InitMatrix == MatrixInputs /\ ReqIdle /\ CompileIdle
NextMatrix == ApplyMatrix
SpecMatrix == InitMatrix /\ [][NextMatrix]_vars

InitReq == ReqInputs /\ MatrixIdle /\ CompileIdle
NextReq == ApplyRequirements
SpecReq == InitReq /\ [][NextReq]_vars

InitJobBase == JobBaseInputs /\ MatrixIdle /\ ReqIdle
NextJobBase == CreateJobBase
SpecJobBase == InitJobBase /\ [][NextJobBase]_vars

InitCompile == CompileInputs /\ MatrixIdle /\ ReqIdle
NextCompile == ReadJobConfig \/ ValidateJobConfig \/ ConvertJobConfig
SpecCompile == InitCompile /\ [][NextCompile]_vars

-----------------------------------------------------------------------------
(* Claims about the matrix expander *)

\* p occurs in t as a contiguous run of tokens
Occurs(p, t) ==
    \E i \in 1..(Len(t) - Len(p) + 1) : SubSeq(t, i, i + Len(p) - 1) = p

\* the axes of m that t references with a $(matrix.<axis>) placeholder
ReferencedAxes(t, m) == {k \in DOMAIN m : Occurs(Placeholder(k), t)}

RECURSIVE ProductOfSizes(_, _)
ProductOfSizes(axes, m) ==
    IF axes = {} THEN 1
    ELSE LET k == CHOOSE x \in axes : TRUE
         IN  Len(m[k]) * ProductOfSizes(axes \ {k}, m)

\* C1: applyMatrix returns as many results as the product of the value-list
\* sizes of the distinct matrix axes referenced by a $(matrix.<axis>)
\* placeholder; expressions of another form, such as $(<axis>), do not change
\* the number of results.
C1_Cardinality ==
    mpc = "done" => Len(res) = ProductOfSizes(ReferencedAxes(yamlStr, matrix), matrix)

\* no expression of the template, $(matrix.<id>) or $(<id>), names a key of m
NoRecognized(t, m) ==
    \A k \in DOMAIN m : ~Occurs(Placeholder(k), t) /\ ~Occurs(BareExpression(k), t)

\* C2: a template none of whose placeholders names a key of the axis map
\* expands to exactly itself, unrecognized placeholders left untouched.
C2_NoRecognizedUnchanged ==
    (mpc = "done" /\ NoRecognized(yamlStr, matrix)) => res = <<yamlStr>>

\* C2 witness: a template holding only the unrecognized placeholder
\* $(matrix.c), expanded under a non-empty matrix, came back as itself.
C2_Witness ==
    /\ mpc = "done"
    /\ DOMAIN matrix = AxisNames
    /\ Occurs(Placeholder(<<"c">>), yamlStr)
    /\ NoRecognized(yamlStr, matrix)
    /\ res = <<yamlStr>>

\* the referenced axes in the order of their first appearance in t
RECURSIVE AxesInOrder(_, _, _)
AxesInOrder(t, m, seen) ==
    IF t = <<>> THEN <<>>
    ELSE LET here == {k \in DOMAIN m \ seen : HasPrefix(t, Placeholder(k))}
         IN  IF here = {} THEN AxesInOrder(Tail(t), m, seen)
             ELSE LET k == CHOOSE x \in here : TRUE
                  IN  <<k>> \o AxesInOrder(Tail(t), m, seen \cup {k})

\* the expansions of t over the axes, lexicographic in the value indices
RECURSIVE LexExpansion(_, _, _)
LexExpansion(axes, t, m) ==
    IF axes = <<>> THEN <<t>>
    ELSE Flatten([i \in 1..Len(m[Head(axes)]) |->
            LexExpansion(Tail(axes), ReplaceAll(t, Placeholder(Head(axes)), m[Head(axes)][i]), m)])

\* C3: the result list is the lexicographic enumeration, over the recognized
\* axes in order of first appearance and each axis's values in declared
\* order, of the template with the axis placeholders replaced.
C3_LexOrder ==
    mpc = "done" => res = LexExpansion(AxesInOrder(yamlStr, matrix, {}), yamlStr, matrix)

-----------------------------------------------------------------------------
(* Claims about the requirement resolver *)

\* every requirement and excluded requirement is a key of the preset map
NamesValid ==
    Range(requirements) \cup Range(excludedRequirements) \subseteq DOMAIN presetMap

\* the names of the requirements that are not excluded, in order
ResolvedNames ==
    LET Kept(r) == r \notin Range(excludedRequirements)
    IN  SelectSeq(requirements, Kept)

\* the env vars the resolved presets declare, in resolution order
DeclaredEnv == Flatten([i \in 1..Len(ResolvedNames) |-> presetMap[ResolvedNames[i]].Env])

\* the secrets the resolved presets carry, in preset order
DeclaredSecrets == Flatten([i \in 1..Len(ResolvedNames) |-> presetMap[ResolvedNames[i]].Secrets])

\* the entries of env that are named n, in order
EntriesNamed(env, n) ==
    LET Named(e) == e.Name = n
    IN  SelectSeq(env, Named)

\* the number of env vars ApplyRequirements appends to container i after the
\* presets were merged: GCP_SECRETS and GOMAXPROCS
InjectedCount(i) ==
    IF rpc # "done" THEN 0
    ELSE (IF DeclaredSecrets # <<>> /\ i = 1 THEN 1 ELSE 0)
         + (IF baseConfig.AutoMaxProcs /\ job.Spec.Containers[i].CpuLimit # 0 THEN 1 ELSE 0)

\* the env of container i as the merge of the presets left it
MergedEnvOf(i) ==
    LET env == job.Spec.Containers[i].Env
    IN  SubSeq(env, 1, Len(env) - InjectedCount(i))

\* C7: preset env merging is first-writer-wins. For every container of the
\* job and every env name: a name the container already had keeps exactly
\* its entries, and a name it did not have gets exactly one entry, the first
\* declaration among the resolved presets in resolution order.
C7_EnvFirstWriterWins ==
    (rpc \in {"done", "fatal"} /\ NamesValid /\ ~job0.Spec.isNil) =>
        \A i \in 1..Len(job0.Spec.Containers) :
            \A n \in {e.Name : e \in Range(job0.Spec.Containers[i].Env) \cup Range(DeclaredEnv)
                                        \cup Range(MergedEnvOf(i))} :
                LET before == EntriesNamed(job0.Spec.Containers[i].Env, n)
                    declared == EntriesNamed(DeclaredEnv, n)
                    after == EntriesNamed(MergedEnvOf(i), n)
                IN  IF before # <<>> THEN after = before
                    ELSE IF declared # <<>> THEN after = <<Head(declared)>>
                    ELSE after = <<>>

\* C7 witness: p2 (X=2) and then p1 (X=1) were merged onto a sole container
\* that had no X, and the container holds the single entry X=2.
C7_Witness ==
    /\ rpc = "done"
    /\ requirements = <<"p2", "p1">>
    /\ excludedRequirements = <<>>
    /\ Len(job0.Spec.Containers) = 1
    /\ job0.Spec.Containers[1].Env = <<>>
    /\ EntriesNamed(job.Spec.Containers[1].Env, "X") = <<EnvVar("X", <<"2">>)>>

\* the env vars that the job, the presets and the presets' pod-spec overlays
\* declare themselves
KnownEnv ==
    UNION {Range(c.Env) : c \in Range(job0.Spec.Containers)}
    \cup UNION {Range(presetMap[p].Env) : p \in DOMAIN presetMap}
    \cup UNION {UNION {Range(c.Env) : c \in Range(presetMap[p].PodSpec.Containers)} :
                    p \in DOMAIN presetMap}

\* the positions of the GCP_SECRETS entries of env that nobody declared
InjectedSecretEntries(env) ==
    {k \in 1..Len(env) : env[k].Name = "GCP_SECRETS" /\ env[k] \notin KnownEnv}

\* C8: when the resolved presets carry a secret, ApplyRequirements succeeds
\* exactly if the job has one container when the secrets are applied, and
\* then that container got exactly one injected GCP_SECRETS env var, whose
\* value is the serialized list of the secrets in preset order; when they
\* carry none, no container of the job gets an injected GCP_SECRETS.
C8_SecretsSingleContainer ==
    (rpc \in {"done", "fatal", "panic"} /\ NamesValid) =>
        IF DeclaredSecrets # <<>>
        THEN /\ rpc = "done" <=> (~job.Spec.isNil /\ Len(job.Spec.Containers) = 1)
             /\ rpc = "done" =>
                    LET env == job.Spec.Containers[1].Env
                    IN  /\ Cardinality(InjectedSecretEntries(env)) = 1
                        /\ \A k \in InjectedSecretEntries(env) :
                              env[k].Value = Marshal(DeclaredSecrets)
        ELSE \A i \in 1..Len(job.Spec.Containers) :
                InjectedSecretEntries(job.Spec.Containers[i].Env) = {}

\* C8 witness: p1 (secret s1) and p3 (secrets s3, s4) were applied to a job
\* with one container, which now ends with GCP_SECRETS = [s1, s3, s4].
C8_Witness ==
    /\ rpc = "done"
    /\ requirements = <<"p1", "p3">>
    /\ excludedRequirements = <<>>
    /\ ~baseConfig.AutoMaxProcs
    /\ Len(job0.Spec.Containers) = 1
    /\ LET env == job.Spec.Containers[1].Env
       IN  env[Len(env)] = EnvVar("GCP_SECRETS", Marshal(<<"s1", "s3", "s4">>))

\* one preset was resolved, it carries a pod-spec overlay, and the job has a
\* pod spec
OverlayMerged ==
    /\ rpc = "done"
    /\ NamesValid
    /\ Len(ResolvedNames) = 1
    /\ ~presetMap[ResolvedNames[1]].PodSpec.isNil
    /\ ~job0.Spec.isNil

\* the scalar field keeps the job's value and is filled from the overlay
\* when the job has none
OverlayScalar ==
    LET overlay == presetMap[ResolvedNames[1]].PodSpec
    IN  job.Spec.ServiceAccountName =
            IF job0.Spec.ServiceAccountName # "" THEN job0.Spec.ServiceAccountName
            ELSE overlay.ServiceAccountName

\* C15: merging a preset's pod-spec overlay fills the fields absent on the
\* job, keeps the job's value of a populated scalar field, and makes a list
\* field (containers, volumes) the job's list followed by the overlay's list.
C15_OverlayMerge ==
    OverlayMerged =>
        LET overlay == presetMap[ResolvedNames[1]].PodSpec
            own == Len(job0.Spec.Containers)
        IN  /\ OverlayScalar
            /\ job.Spec.Volumes =
                    MergeVolumes(job0.Spec.Volumes, presetMap[ResolvedNames[1]].Volumes)
                        \o overlay.Volumes
            /\ Len(job.Spec.Containers) = own + Len(overlay.Containers)
            /\ \A i \in 1..Len(overlay.Containers) :
                    [job.Spec.Containers[own + i] EXCEPT !.Env = MergedEnvOf(own + i)]
                        = overlay.Containers[i]

\* the env var names of the list are pairwise distinct
DistinctNames(env) ==
    \A a, b \in 1..Len(env) : env[a].Name = env[b].Name => a = b

\* C16: if every container of the job starts with pairwise distinct env var
\* names, every container has pairwise distinct env var names after
\* ApplyRequirements has merged the presets and injected GCP_SECRETS and
\* GOMAXPROCS.
C16_EnvNamesStayUnique ==
    (/\ rpc = "done"
     /\ NamesValid
     /\ ~job0.Spec.isNil
     /\ \A i \in 1..Len(job0.Spec.Containers) : DistinctNames(job0.Spec.Containers[i].Env))
        => \A i \in 1..Len(job.Spec.Containers) : DistinctNames(job.Spec.Containers[i].Env)

-----------------------------------------------------------------------------
(* Claims about the job compiler *)

\* GlobalConfig's map behind a reference; the nil map has no entries
GlobalMap(ref) == IF ref = NilRef THEN EmptyMap ELSE heap[ref]

\* the key-wise merge of three levels: each key takes the value of the most
\* specific level that defines it
Merge3(global, group, j) ==
    [k \in DOMAIN global \cup DOMAIN group.kv \cup DOMAIN j.kv |->
        IF k \in DOMAIN j.kv THEN j.kv[k]
        ELSE IF k \in DOMAIN group.kv THEN group.kv[k]
        ELSE global[k]]

\* C4: the annotations, and likewise the labels, that createJobBase gives a
\* job are the key-wise merge of the global, job-group and job maps with
\* precedence global < job-group < job.
C4_ThreeLevelMerge ==
    cpc = "based" =>
        /\ heap[jobBase.Annotations] =
                Merge3(GlobalMap(globalConfig.Annotations), jobsConfig.Annotations,
                       jobsConfig.Jobs[1].Annotations)
        /\ heap[jobBase.Labels] =
                Merge3(GlobalMap(globalConfig.Labels), jobsConfig.Labels,
                       jobsConfig.Jobs[1].Labels)

\* C4 witness: global {a:1}, group {a:2,b:2}, job {b:3} has become {a:2,b:3}
C4_Witness ==
    /\ cpc = "based"
    /\ GlobalMap(globalConfig.Annotations) = [a |-> <<"1">>]
    /\ jobsConfig.Annotations = MapOf([a |-> <<"2">>, b |-> <<"2">>])
    /\ jobsConfig.Jobs[1].Annotations = MapOf([b |-> <<"3">>])
    /\ heap[jobBase.Annotations] = [a |-> <<"2">>, b |-> <<"3">>]

\* the value of the most specific level that is set, and unset if none is
MostSpecific(global, group, j, IsSet(_), unset) ==
    IF IsSet(j) THEN j ELSE IF IsSet(group) THEN group ELSE IF IsSet(global) THEN global ELSE unset

NonEmptyMap(m) == m.kv # EmptyMap
NonEmptyString(c) == c # ""

\* C13: the node selector and the cluster createJobBase gives a job are those
\* of the most specific level at which they are non-empty: an empty or unset
\* level erases nothing and a non-empty level overrides the levels below it.
C13_SelectorClusterPrecedence ==
    cpc = "based" =>
        /\ jobBase.Spec.NodeSelector.kv =
                MostSpecific(globalConfig.NodeSelector, jobsConfig.NodeSelector,
                             jobsConfig.Jobs[1].NodeSelector, NonEmptyMap, NilMap).kv
        /\ jobBase.Cluster =
                MostSpecific(globalConfig.Cluster, jobsConfig.Cluster,
                             jobsConfig.Jobs[1].Cluster, NonEmptyString, "")

\* the env var of the name in the list, the first if there are several
RECURSIVE EnvNamed(_, _)
EnvNamed(env, name) ==
    IF Head(env).Name = name THEN Head(env) ELSE EnvNamed(Tail(env), name)

EnvNames(env) == {env[i].Name : i \in 1..Len(env)}

\* C14: the env list createContainer gives the container is the union by
\* name of the job's and the group's env lists: each name once, with the
\* job's value if the job declares it and the group's value otherwise.
C14_EnvUnionByName ==
    cpc = "based" =>
        LET env == jobBase.Spec.Containers[1].Env
            jobEnv == jobsConfig.Jobs[1].Env
            groupEnv == jobsConfig.Env
        IN  /\ EnvNames(env) = EnvNames(jobEnv) \cup EnvNames(groupEnv)
            /\ \A a, b \in 1..Len(env) : env[a].Name = env[b].Name => a = b
            /\ \A k \in 1..Len(env) :
                    env[k] = IF env[k].Name \in EnvNames(jobEnv)
                             THEN EnvNamed(jobEnv, env[k].Name)
                             ELSE EnvNamed(groupEnv, env[k].Name)
            /\ Len(jobEnv) = 0 => env = groupEnv

\* the settings of GlobalConfig that a compilation reads
GlobalSettings ==
    [Annotations |-> IF globalConfig.Annotations = NilRef THEN NilMap
                     ELSE MapOf(heap[globalConfig.Annotations]),
     Labels |-> IF globalConfig.Labels = NilRef THEN NilMap
                ELSE MapOf(heap[globalConfig.Labels]),
     NodeSelector |-> globalConfig.NodeSelector,
     BaseRequirements |-> globalConfig.BaseRequirements]

\* C5: ConvertJobConfig leaves the global annotations, labels, node selector
\* and base requirements with the contents they had before the call.
C5_GlobalSettingsImmutable ==
    [][MayConvert => GlobalSettings' = GlobalSettings]_vars

\* the global resource profiles and requirement presets
GlobalStores ==
    [Resources |-> IF globalConfig.Resources = NilRef THEN NilMap
                   ELSE MapOf(heap[globalConfig.Resources]),
     RequirementPresets |-> IF globalConfig.RequirementPresets = NilRef THEN NilMap
                            ELSE MapOf(heap[globalConfig.RequirementPresets])]

\* C6: ReadJobConfig leaves the global resource profiles and the global
\* requirement presets unchanged.
C6_ReadLeavesGlobalStores ==
    [][MayRead => GlobalStores' = GlobalStores]_vars

\* C9: every requirement name that reaches preset resolution is a key of the
\* preset map it is resolved against; no lookup gives the zero preset silently.
C9_NoSilentLookup ==
    \A l \in lookups : l.found

\* the descriptors of the kind compiled from the document read last, over
\* all its branches
DescriptorsOf(kind) ==
    Flatten([n \in 1..Len(output) |-> IF output[n].file = fileIdx THEN output[n][kind] ELSE <<>>])

\* C11: among the descriptors of one trigger kind compiled from one job
\* group over all its branches, two descriptors of distinct (expanded job
\* name, branch) pairs have distinct names.
C11_NamesUnique ==
    \A kind \in {"presubmit", "postsubmit", "periodic"} :
        LET ds == DescriptorsOf(kind)
        IN  \A a, b \in 1..Len(ds) :
                <<ds[a].Job, ds[a].Branch>> # <<ds[b].Job, ds[b].Branch>>
                    => ds[a].JobBase.Name # ds[b].JobBase.Name

\* the jobs of the document read last after matrix expansion
ExpandedJobs ==
    Flatten([i \in 1..Len(jobsConfig.Jobs) |-> applyMatrixJob(jobsConfig.Jobs[i], jobsConfig.Matrix)])

\* the number of expanded jobs of the name that are selected for the kind
SelectedCount(name, kind) ==
    Cardinality({i \in 1..Len(ExpandedJobs) :
                    ExpandedJobs[i].Name = name /\ Selected(ExpandedJobs[i], kind)})

\* the number of descriptors of the kind compiled for jobs of the name
DescriptorCount(name, kind) ==
    Cardinality({k \in 1..Len(DescriptorsOf(kind)) : DescriptorsOf(kind)[k].Job = name})

\* the document read last has been compiled for all its branches
Compiled == fileIdx > 0 /\ cpc = "idle" /\ branchIdx = Len(jobsConfig.Branches)

\* C12: once a job group is compiled for its k branches, each expanded job
\* with type periodic has one periodic descriptor, not k, while presubmit and
\* postsubmit descriptors are there once per branch.
C12_PeriodicOncePerJob ==
    Compiled =>
        \A i \in 1..Len(ExpandedJobs) :
            LET name == ExpandedJobs[i].Name
            IN  /\ DescriptorCount(name, "periodic") = SelectedCount(name, "periodic")
                /\ \A kind \in {"presubmit", "postsubmit"} :
                        DescriptorCount(name, kind) =
                            SelectedCount(name, kind) * Len(jobsConfig.Branches)

\* the schedule errors of ValidateJobConfig
ScheduleKinds ==
    {"cron and interval both set", "cron and interval both empty",
     "invalid cron", "invalid interval"}

\* C10: once ValidateJobConfig has run, a periodic job with both cron and
\* interval set, or with neither, has ended the run with its error; a periodic
\* job with exactly one of them, valid, has no schedule error; and every
\* periodic descriptor compiled has exactly one of cron and interval non-empty.
C10_ScheduleExclusive ==
    /\ cpc \in {"valid", "exit"} =>
        \A i \in 1..Len(jobsConfig.Jobs) :
            LET j == jobsConfig.Jobs[i]
                SchedErrs == {e \in errs : e.job = i /\ e.kind \in ScheduleKinds}
            IN  "periodic" \in Range(j.Types) =>
                    /\ (j.Cron # "" /\ j.Interval # "") =>
                            /\ cpc = "exit"
                            /\ SchedErrs = {[job |-> i, kind |-> "cron and interval both set"]}
                    /\ (j.Cron = "" /\ j.Interval = "") =>
                            /\ cpc = "exit"
                            /\ SchedErrs = {[job |-> i, kind |-> "cron and interval both empty"]}
                    /\ (j.Cron # "" /\ j.Interval = "" /\ ValidCron(j.Cron)) => SchedErrs = {}
                    /\ (j.Cron = "" /\ j.Interval # "" /\ ValidDuration(j.Interval)) => SchedErrs = {}
    /\ \A n \in 1..Len(output) : \A k \in 1..Len(output[n].periodic) :
            LET p == output[n].periodic[k]
            IN  (p.Cron = "") # (p.Interval = "")

\* C10 witness: a periodic job with a valid schedule has been compiled, and a
\* later document's periodic job with both cron and interval has ended the run
C10_Witness ==
    /\ \E n \in 1..Len(output) : Len(output[n].periodic) > 0
    /\ cpc = "exit"
    /\ \E e \in errs : e.kind = "cron and interval both set"

============================================================================
